---------------------------- MODULE Spec2Model ----------------------------
(***************************************************************************)
(* A model of three command-line utilities of the repository:              *)
(*                                                                         *)
(*   analyze_all_coverage.py  ("all"):    the strict coverage aggregator    *)
(*   analyze_coverage.py      ("legacy"): the legacy coverage aggregator    *)
(*   add-servicebus-rules.py  ("rules"):  the Service Bus rule patcher      *)
(*                                                                         *)
(* Each run is a state machine: the inputs (the file system under 'tests', *)
(* the coverage documents, the JSON on standard input) are fixed by Init,  *)
(* and the actions are the steps of the script's main.                     *)
(*                                                                         *)
(* Text is a sequence of one-character strings, so that startswith, `in`   *)
(* and split work on characters as they do in Python.  A rate is an        *)
(* integer number of percent: the inputs carry at most two decimals and    *)
(* are values whose product with 100 is exact in binary floating point.    *)
(***************************************************************************)
EXTENDS Integers, Sequences, FiniteSets, TLC

VARIABLES
    script,          \* which utility runs: "all", "legacy" or "rules"
    pc,              \* position in main
    fs,              \* the file system under the discovery root
    coverage_files,  \* main's coverage_files: discovered projects, in order
    parsed,          \* the files handed to parse_coverage so far, in order
    all_packages,    \* main's all_packages: package name -> record
    out,             \* lines printed to standard output
    error,           \* the exception that ended the run, "" when none
    exit_code,       \* -1 while running, then the process's exit status
    stdin,           \* rules: what standard input holds
    config,          \* rules: the config object being patched
    todo,            \* rules: subscriptions still to be visited
    stdout_json      \* rules: JSON documents written to standard output

vars == <<script, pc, fs, coverage_files, parsed, all_packages, out, error,
          exit_code, stdin, config, todo, stdout_json>>

(***************************************************************************)
(* Bounds of the model                                                     *)
(***************************************************************************)
MaxProjects == 2

MaxFsProjects == 2

MaxSubs == 2

MaxNamespaces == 2

MaxClasses == 12

(***************************************************************************)
(* Text                                                                    *)
(***************************************************************************)
PREFIX == <<"W", "h", "i", "z", "b", "a", "n", "g">>

TEST_MARKER == <<".", "T", "e", "s", "t", "s">>

NameCore == <<"W", "h", "i", "z", "b", "a", "n", "g", ".", "C", "o", "r", "e">>

NameData == <<"W", "h", "i", "z", "b", "a", "n", "g", ".", "D", "a", "t", "a">>

NameCoreTests == <<"W", "h", "i", "z", "b", "a", "n", "g", ".", "C", "o", "r", "e", ".", "T", "e", "s", "t", "s">>

NameOther == <<"O", "t", "h", "e", "r", ".", "L", "i", "b">>

NameMyWhizbang == <<"M", "y", ".", "W", "h", "i", "z", "b", "a", "n", "g">>

ClassCoreBar == <<"W", "h", "i", "z", "b", "a", "n", "g", ".", "C", "o", "r", "e", ".", "B", "a", "r">>

ClassCoreBaz == <<"W", "h", "i", "z", "b", "a", "n", "g", ".", "C", "o", "r", "e", ".", "B", "a", "z">>

ClassInnerBar == <<"W", "h", "i", "z", "b", "a", "n", "g", ".", "C", "o", "r", "e", ".", "I", "n", "n", "e", "r", ".", "B", "a", "r">>

ClassPlain == <<"Q", "u", "x">>

\* str.startswith(prefix)
StartsWith(s, prefix) ==
    /\ Len(s) >= Len(prefix)
    /\ SubSeq(s, 1, Len(prefix)) = prefix

\* sub in s
Contains(s, sub) ==
    \E i \in 1..(Len(s) - Len(sub) + 1) : SubSeq(s, i, i + Len(sub) - 1) = sub

\* s.split('.')[-1]: the text after the last '.', all of s when it has none
LastSegment(s) ==
    LET dots == {i \in 1..Len(s) : s[i] = "."}
    IN  IF dots = {} THEN s
        ELSE LET last == CHOOSE i \in dots : \A j \in dots : j <= i
             IN  SubSeq(s, last + 1, Len(s))

\* The characters of the model in code-point order; CharRank keeps that order.
Alphabet ==
    <<".", "0", "1", "2", "3", "4", "5", "6", "7", "8", "9",
      "B", "C", "D", "I", "L", "M", "O", "Q", "T", "W",
      "a", "b", "e", "g", "h", "i", "n", "o", "r", "s", "t", "u", "x", "y", "z">>

CharRank(c) == CHOOSE i \in 1..Len(Alphabet) : Alphabet[i] = c

\* Python's str.__lt__: lexicographic by code point, a proper prefix is smaller
StrLess(a, b) ==
    \/ /\ Len(a) < Len(b)
       /\ SubSeq(b, 1, Len(a)) = a
    \/ \E i \in 1..Len(a) :
          /\ i <= Len(b)
          /\ SubSeq(a, 1, i - 1) = SubSeq(b, 1, i - 1)
          /\ CharRank(a[i]) < CharRank(b[i])

\* sorted(keys): the keys as a list in ascending order
RECURSIVE Sorted(_)
Sorted(S) ==
    IF S = {} THEN <<>>
    ELSE LET m == CHOOSE x \in S : \A y \in S \ {x} : StrLess(x, y)
         IN  <<m>> \o Sorted(S \ {m})

(***************************************************************************)
(* float(): the decimal strings of the model parse as digits, optionally   *)
(* with one '.', holding at least one digit; anything else raises          *)
(* ValueError.                                                             *)
(***************************************************************************)
Digits == <<"0", "1", "2", "3", "4", "5", "6", "7", "8", "9">>

IsDigit(c) == \E i \in 1..10 : Digits[i] = c

DigitVal(c) == (CHOOSE i \in 1..10 : Digits[i] = c) - 1

FloatValid(text) ==
    LET dots == {i \in 1..Len(text) : text[i] = "."}
    IN  /\ Cardinality(dots) <= 1
        /\ \A i \in 1..Len(text) : i \notin dots => IsDigit(text[i])
        /\ \E i \in 1..Len(text) : IsDigit(text[i])

RECURSIVE IntOfDigits(_)
IntOfDigits(ds) ==
    IF ds = <<>> THEN 0
    ELSE 10 * IntOfDigits(SubSeq(ds, 1, Len(ds) - 1)) + DigitVal(ds[Len(ds)])

\* float(text) * 100 for a valid text of at most two decimals
FloatTimes100(text) ==
    LET dots == {i \in 1..Len(text) : text[i] = "."}
        dot  == IF dots = {} THEN Len(text) + 1 ELSE CHOOSE i \in dots : TRUE
        ip   == SubSeq(text, 1, dot - 1)
        fp   == SubSeq(text, dot + 1, Len(text))
        d1   == IF Len(fp) >= 1 THEN DigitVal(fp[1]) ELSE 0
        d2   == IF Len(fp) >= 2 THEN DigitVal(fp[2]) ELSE 0
    IN  100 * IntOfDigits(ip) + 10 * d1 + d2

(***************************************************************************)
(* Coverage documents                                                      *)
(***************************************************************************)
NoAttr == [present |-> FALSE, text |-> <<>>]

Attr(text) == [present |-> TRUE, text |-> text]

\* elem.get(attr, 0) can be handed to float(): absent gives the default 0
RateReadable(attr) == ~attr.present \/ FloatValid(attr.text)

\* float(elem.get(attr, 0)) * 100
RateOf(attr) == IF attr.present THEN FloatTimes100(attr.text) ELSE 0

ClassElem(name, line, branch) == [name |-> name, line |-> line, branch |-> branch]

PkgElem(name, line, branch, classes) ==
    [name |-> name, line |-> line, branch |-> branch, classes |-> classes]

Doc(packages) == [wellformed |-> TRUE, packages |-> packages]

MalformedDoc == [wellformed |-> FALSE, packages |-> <<>>]

EmptyMap == <<>>

\* UpdateMap with the entries of a kept: setdefault in place of update
UpdateMapKeepFirst(a, b) ==
    [k \in (DOMAIN a) \cup (DOMAIN b) |-> IF k \in DOMAIN a THEN a[k] ELSE b[k]]

\* dict.update: the entries of b overwrite those of a
UpdateMap(a, b) ==
    [k \in (DOMAIN a) \cup (DOMAIN b) |-> IF k \in DOMAIN b THEN b[k] ELSE a[k]]

\* d[k] = v
Put(d, k, v) == [x \in (DOMAIN d) \cup {k} |-> IF x = k THEN v ELSE d[x]]

Max(a, b) == IF a >= b THEN a ELSE b


(***************************************************************************)
(* Program constants                                                       *)
(***************************************************************************)
FULL == 100

NEAR_ALL == 95

NEAR_LEGACY == 90

CLASS_SKIP == 90

CLASS_CAP == 10

(***************************************************************************)
(* parse_coverage.  A result is [err, packages]: err names the exception   *)
(* that left the function ("" when it returned), packages is the mapping   *)
(* built so far.  Elements are visited in document order and the first     *)
(* exception ends the visit.                                               *)
(***************************************************************************)
Raised(e, m) == [err |-> e, map |-> m]

Returned(m) == [err |-> "", map |-> m]

\* accepts_all with `in` where the code has startswith
accepts_all_anywhere(name) == Contains(name, PREFIX) /\ ~Contains(name, TEST_MARKER)

\* analyze_all_coverage.py: the filter on line 29 and line 33
accepts_all(name) == StartsWith(name, PREFIX) /\ ~Contains(name, TEST_MARKER)

\* analyze_coverage.py: the filter on line 25
accepts_legacy(name) == StartsWith(name, PREFIX)

\* analyze_all_coverage.py: the class loop over the first n class elements
RECURSIVE classes_all(_, _)
classes_all(elems, n) ==
    IF n = 0 THEN Returned(EmptyMap)
    ELSE LET acc == classes_all(elems, n - 1)
             ce  == elems[n]
         IN  IF acc.err # "" THEN acc
             ELSE IF ~ce.name.present THEN Raised("AttributeError", acc.map)
             ELSE IF ~RateReadable(ce.line) \/ ~RateReadable(ce.branch)
                  THEN Raised("ValueError", acc.map)
             ELSE IF RateOf(ce.line) >= CLASS_SKIP /\ RateOf(ce.branch) >= CLASS_SKIP
                  THEN acc
             ELSE Returned(Put(acc.map, LastSegment(ce.name.text),
                               <<RateOf(ce.line), RateOf(ce.branch)>>))

\* analyze_coverage.py: the class loop over the first n class elements
RECURSIVE classes_legacy(_, _)
classes_legacy(elems, n) ==
    IF n = 0 THEN Returned(EmptyMap)
    ELSE LET acc == classes_legacy(elems, n - 1)
             ce  == elems[n]
         IN  IF acc.err # "" THEN acc
             ELSE IF ~ce.name.present THEN Raised("AttributeError", acc.map)
             ELSE IF ~RateReadable(ce.line) \/ ~RateReadable(ce.branch)
                  THEN Raised("ValueError", acc.map)
             ELSE Returned(Put(acc.map, LastSegment(ce.name.text),
                               <<RateOf(ce.line), RateOf(ce.branch)>>))

PackageRecord(line, branch, classes) ==
    [line |-> line, branch |-> branch, classes |-> classes]

\* analyze_all_coverage.py lines 51-61: a repeated name keeps the higher rates
accumulate_all(packages, name, rec) ==
    IF name \notin DOMAIN packages
    THEN Put(packages, name, rec)
    ELSE Put(packages, name,
             PackageRecord(Max(packages[name].line, rec.line),
                           Max(packages[name].branch, rec.branch),
                           UpdateMap(packages[name].classes, rec.classes)))

\* analyze_coverage.py lines 38-42: a repeated name replaces the record
accumulate_legacy(packages, name, rec) == Put(packages, name, rec)

\* analyze_all_coverage.py: the package loop over the first n package elements
RECURSIVE packages_all(_, _)
packages_all(elems, n) ==
    IF n = 0 THEN Returned(EmptyMap)
    ELSE LET acc == packages_all(elems, n - 1)
             pe  == elems[n]
             cls == classes_all(pe.classes, Len(pe.classes))
         IN  IF acc.err # "" THEN acc
             ELSE IF ~pe.name.present THEN Raised("AttributeError", acc.map)
             ELSE IF ~accepts_all(pe.name.text) THEN acc
             ELSE IF ~RateReadable(pe.line) \/ ~RateReadable(pe.branch)
                  THEN Raised("ValueError", acc.map)
             ELSE IF cls.err # "" THEN Raised(cls.err, acc.map)
             ELSE Returned(accumulate_all(acc.map, pe.name.text,
                      PackageRecord(RateOf(pe.line), RateOf(pe.branch), cls.map)))

\* analyze_coverage.py: the package loop over the first n package elements
RECURSIVE packages_legacy(_, _)
packages_legacy(elems, n) ==
    IF n = 0 THEN Returned(EmptyMap)
    ELSE LET acc == packages_legacy(elems, n - 1)
             pe  == elems[n]
             cls == classes_legacy(pe.classes, Len(pe.classes))
         IN  IF acc.err # "" THEN acc
             ELSE IF ~pe.name.present THEN Raised("AttributeError", acc.map)
             ELSE IF ~accepts_legacy(pe.name.text) THEN acc
             ELSE IF ~RateReadable(pe.line) \/ ~RateReadable(pe.branch)
                  THEN Raised("ValueError", acc.map)
             ELSE IF cls.err # "" THEN Raised(cls.err, acc.map)
             ELSE Returned(accumulate_legacy(acc.map, pe.name.text,
                      PackageRecord(RateOf(pe.line), RateOf(pe.branch), cls.map)))

\* Does the file of entry e exist for the script that discovered it
HasCoverage(e) == e.kind \in {"cov", "deep"}

\* analyze_all_coverage.py parse_coverage
parse_coverage_all(e) ==
    IF ~HasCoverage(e) THEN Returned(EmptyMap)
    ELSE IF ~e.doc.wellformed THEN Raised("ParseError", EmptyMap)
    ELSE packages_all(e.doc.packages, Len(e.doc.packages))

\* analyze_coverage.py parse_coverage
parse_coverage_legacy(e) ==
    IF ~HasCoverage(e) THEN Returned(EmptyMap)
    ELSE IF ~e.doc.wellformed THEN Raised("ParseError", EmptyMap)
    ELSE packages_legacy(e.doc.packages, Len(e.doc.packages))

(***************************************************************************)
(* The fold of main                                                        *)
(***************************************************************************)
\* analyze_all_coverage.py line 75: the defaultdict's fresh record
DefaultRecord == PackageRecord(0, 0, EmptyMap)

\* merge_all with the rates assigned instead of compared
merge_all_overwrite(agg, packages) ==
    [n \in (DOMAIN agg) \cup (DOMAIN packages) |->
        IF n \in DOMAIN packages
        THEN LET cur == IF n \in DOMAIN agg THEN agg[n] ELSE DefaultRecord
             IN  PackageRecord(packages[n].line, packages[n].branch,
                               UpdateMap(cur.classes, packages[n].classes))
        ELSE agg[n]]

\* analyze_all_coverage.py lines 79-83
merge_all(agg, packages) ==
    [n \in (DOMAIN agg) \cup (DOMAIN packages) |->
        IF n \in DOMAIN packages
        THEN LET cur == IF n \in DOMAIN agg THEN agg[n] ELSE DefaultRecord
             IN  PackageRecord(Max(cur.line, packages[n].line),
                               Max(cur.branch, packages[n].branch),
                               UpdateMap(cur.classes, packages[n].classes))
        ELSE agg[n]]

\* analyze_coverage.py lines 57-58: all_packages[pkg_name].update(metrics)
merge_legacy(agg, packages) ==
    [n \in (DOMAIN agg) \cup (DOMAIN packages) |->
        IF n \in DOMAIN packages
        THEN UpdateMap(IF n \in DOMAIN agg THEN agg[n] ELSE EmptyMap, packages[n])
        ELSE agg[n]]

(***************************************************************************)
(* Discovery                                                               *)
(***************************************************************************)
\* The lists that hold each member of S once: a directory listing has no
\* defined order.
Orderings(S) ==
    {s \in [1..Cardinality(S) -> S] : \A i, j \in 1..Cardinality(S) : s[i] = s[j] => i = j}

\* analyze_all_coverage.py: os.listdir raises when the root is not there
listdir_raises(f) == ~f.root

\* analyze_all_coverage.py: the projects whose fixed coverage path exists
find_latest_coverage_files(f) ==
    {i \in 1..Len(f.entries) : f.entries[i].kind = "cov"}

\* analyze_coverage.py: os.walk yields nothing for a missing root, and finds
\* the file at any depth
find_coverage_files(f) ==
    IF ~f.root THEN {}
    ELSE {i \in 1..Len(f.entries) : f.entries[i].kind \in {"cov", "deep"}}


(***************************************************************************)
(* Reporting.  A printed line is a record: its kind, and the values the    *)
(* line is formatted from.  The status markers are written without their   *)
(* leading symbol.                                                         *)
(***************************************************************************)
Line(kind, name, line, branch, status, n) ==
    [kind |-> kind, name |-> name, line |-> line, branch |-> branch,
     status |-> status, n |-> n]

Text(kind) == Line(kind, <<>>, 0, 0, "", 0)

Count(kind, n) == Line(kind, <<>>, 0, 0, "", n)

\* both scripts: "No coverage files found. Run tests with coverage first."
NoFilesLine == Text("no_coverage_files")

\* status_all with `or` between the two near-threshold comparisons
status_all_either(line, branch) ==
    IF line = FULL /\ branch = FULL THEN "100%"
    ELSE IF line >= NEAR_ALL \/ branch >= NEAR_ALL THEN "Near"
    ELSE "Needs Work"

\* analyze_all_coverage.py lines 95-102
status_all(line, branch) ==
    IF line = FULL /\ branch = FULL THEN "100%"
    ELSE IF line >= NEAR_ALL /\ branch >= NEAR_ALL THEN "Near"
    ELSE "Needs Work"

\* analyze_coverage.py lines 70-77
status_legacy(line, branch) ==
    IF line = FULL /\ branch = FULL THEN "100%"
    ELSE IF line >= NEAR_LEGACY /\ branch >= NEAR_LEGACY THEN "Near"
    ELSE "Low"

\* Take without the cap: the whole list
TakeEvery(s, n) == s

\* sorted(...)[:n]
Take(s, n) == SubSeq(s, 1, IF Len(s) < n THEN Len(s) ELSE n)

\* the class lines of the first n names of a sorted list: only a class with
\* a rate below 100 is printed
RECURSIVE class_lines(_, _, _)
class_lines(classes, names, n) ==
    IF n = 0 THEN <<>>
    ELSE LET c == names[n]
         IN  class_lines(classes, names, n - 1) \o
             (IF classes[c][1] < FULL \/ classes[c][2] < FULL
              THEN <<Line("class", c, classes[c][1], classes[c][2], "", 0)>>
              ELSE <<>>)

\* analyze_all_coverage.py lines 91-115: what is printed for one package
package_lines_all(name, metrics) ==
    LET classes == metrics.classes
        listed  == Take(Sorted(DOMAIN classes), CLASS_CAP)
        total   == Cardinality(DOMAIN classes)
    IN  <<Line("package", name, metrics.line, metrics.branch,
               status_all(metrics.line, metrics.branch), 0)>> \o
        (IF total > 0
         THEN <<Text("classes_heading")>> \o
              class_lines(classes, listed, Len(listed)) \o
              (IF total > CLASS_CAP THEN <<Count("more_classes", total - CLASS_CAP)>>
               ELSE <<>>) \o
              <<Text("blank")>>
         ELSE <<>>)

\* analyze_coverage.py lines 66-85: what is printed for one package
package_lines_legacy(name, metrics) ==
    LET classes == metrics.classes
        listed  == Sorted(DOMAIN classes)
    IN  <<Line("package", name, metrics.line, metrics.branch,
               status_legacy(metrics.line, metrics.branch), 0)>> \o
        class_lines(classes, listed, Len(listed))

RECURSIVE report_packages(_, _, _, _)
report_packages(s, agg, names, n) ==
    IF n = 0 THEN <<>>
    ELSE report_packages(s, agg, names, n - 1) \o
         (IF s = "all" THEN package_lines_all(names[n], agg[names[n]])
          ELSE package_lines_legacy(names[n], agg[names[n]]))

\* packages_with_100 counting on the line rate alone
packages_with_100_line_only(s, agg) ==
    Cardinality({n \in DOMAIN agg : agg[n].line = FULL})

\* packages_with_100 once the loop over the packages has ended: one more for
\* each package given the "100%" status
packages_with_100(s, agg) ==
    Cardinality({n \in DOMAIN agg :
        (IF s = "all" THEN status_all(agg[n].line, agg[n].branch)
         ELSE status_legacy(agg[n].line, agg[n].branch)) = "100%"})

\* analyze_all_coverage.py lines 86-120
report_all(agg) ==
    LET total == Cardinality(DOMAIN agg)
        names == Sorted(DOMAIN agg)
    IN  <<Text("packages_heading")>> \o
        report_packages("all", agg, names, Len(names)) \o
        <<Text("summary_heading"),
          Count("total_packages", total),
          Count("full_coverage", packages_with_100("all", agg)),
          Count("needing_work", total - packages_with_100("all", agg))>>

\* analyze_coverage.py lines 60-90
report_legacy(agg) ==
    LET total == Cardinality(DOMAIN agg)
        names == Sorted(DOMAIN agg)
    IN  <<Text("solution_heading")>> \o
        report_packages("legacy", agg, names, Len(names)) \o
        <<Text("summary_heading"),
          Count("total_packages", total),
          Count("full_coverage", packages_with_100("legacy", agg)),
          Count("coverage_rate",
                IF total > 0 THEN (packages_with_100("legacy", agg) * 100) \div total
                ELSE 0)>>

\* no_coverage_files with the early return never taken
no_coverage_files_never(files) == FALSE

\* both scripts: `if not coverage_files`
no_coverage_files(files) == files = <<>>


(***************************************************************************)
(* add-servicebus-rules.py: the config document                            *)
(***************************************************************************)
\* add_true_filter_rule()
add_true_filter_rule ==
    [Name |-> "$Default", FilterType |-> 0, SqlExpression |-> "1=1"]

CustomRule == [Name |-> "orders", FilterType |-> 0, SqlExpression |-> "kind='order'"]

\* The value under "Rules": the key is missing, or holds null or a list
RulesMissing == [kind |-> "missing", list |-> <<>>]

RulesNull == [kind |-> "null", list |-> <<>>]

RulesList(l) == [kind |-> "list", list |-> l]

Subscription(hasName, rules) == [hasName |-> hasName, rules |-> rules]

Topic(hasName, hasSubscriptions, subscriptions) ==
    [hasName |-> hasName, hasSubscriptions |-> hasSubscriptions,
     subscriptions |-> subscriptions]

Namespace(hasTopics, topics) == [hasTopics |-> hasTopics, topics |-> topics]

Config(hasUserConfig, hasNamespaces, namespaces) ==
    [hasUserConfig |-> hasUserConfig, hasNamespaces |-> hasNamespaces,
     namespaces |-> namespaces]

NoConfig == Config(FALSE, FALSE, <<>>)

\* line 23: the structure check of add_rules_to_subscriptions
invalid_structure(c) == ~c.hasUserConfig \/ ~c.hasNamespaces

\* lacks_rules without the test for an empty value
lacks_rules_key_only(sub) == sub.rules.kind = "missing"

\* line 38: "Rules" not in subscription or not subscription["Rules"]
lacks_rules(sub) == sub.rules.kind \in {"missing", "null"} \/ sub.rules.list = <<>>

\* lines 28-36: the subscriptions the three loops visit, in order, each as
\* <<namespace, topic, subscription>> indices
RECURSIVE subs_of_topic(_, _, _, _)
subs_of_topic(c, i, j, k) ==
    IF k = 0 THEN <<>> ELSE Append(subs_of_topic(c, i, j, k - 1), <<i, j, k>>)

RECURSIVE subs_of_namespace(_, _, _)
subs_of_namespace(c, i, j) ==
    IF j = 0 THEN <<>>
    ELSE LET t == c.namespaces[i].topics[j]
         IN  subs_of_namespace(c, i, j - 1) \o
             (IF t.hasSubscriptions THEN subs_of_topic(c, i, j, Len(t.subscriptions))
              ELSE <<>>)

RECURSIVE subs_of_config(_, _)
subs_of_config(c, i) ==
    IF i = 0 THEN <<>>
    ELSE LET ns == c.namespaces[i]
         IN  subs_of_config(c, i - 1) \o
             (IF ns.hasTopics THEN subs_of_namespace(c, i, Len(ns.topics)) ELSE <<>>)

SubAt(c, p) == c.namespaces[p[1]].topics[p[2]].subscriptions[p[3]]

TopicAt(c, p) == c.namespaces[p[1]].topics[p[2]]

\* line 40: subscription["Rules"] = [add_true_filter_rule()]
SetRules(c, p, rules) ==
    [c EXCEPT !.namespaces[p[1]].topics[p[2]].subscriptions[p[3]].rules = rules]

\* lines 38-40: the visit of one subscription, before its message is printed
visit_subscription(c, p) ==
    IF lacks_rules(SubAt(c, p))
    THEN SetRules(c, p, RulesList(<<add_true_filter_rule>>))
    ELSE c

\* lines 41 and 43: the message reads topic['Name'] and subscription['Name']
message_raises(c, p) == ~TopicAt(c, p).hasName \/ ~SubAt(c, p).hasName


(***************************************************************************)
(* Inputs.  The initial states are the union of bounded families, each     *)
(* varying one part of the input.                                          *)
(***************************************************************************)
SeqsUpTo(S, n) == UNION {[1..k -> S] : k \in 0..n}

SeqsFromTo(S, m, n) == UNION {[1..k -> S] : k \in m..n}

A(text) == Attr(text)

R04 == Attr(<<"0", ".", "4">>)

R06 == Attr(<<"0", ".", "6">>)

R09 == Attr(<<"0", ".", "9">>)

R095 == Attr(<<"0", ".", "9", "5">>)

R1 == Attr(<<"1", ".", "0">>)

RBad == Attr(<<"x">>)

RateAttrs == {NoAttr, R04, R06, R09, R095, R1, RBad}

Entry(kind, doc) == [kind |-> kind, doc |-> doc]

SimpleDoc == Doc(<<PkgElem(A(NameCore), R09, R09, <<>>)>>)

\* A directory entry: a plain file, a project directory without a coverage
\* file, one with the file at the fixed path ("cov"), one with the file
\* somewhere else below it ("deep")
FsEntries ==
    {Entry("file", Doc(<<>>)), Entry("dir", Doc(<<>>)),
     Entry("cov", SimpleDoc), Entry("deep", SimpleDoc)}

\* Family 1: the shape of the file system
FsFamily ==
    {[root |-> FALSE, entries |-> <<>>]} \cup
    {[root |-> TRUE, entries |-> es] : es \in SeqsUpTo(FsEntries, MaxFsProjects)}

\* Family 2: one package element or one class element with every
\* combination of rate attributes, and the documents that cannot be read
RateDocs ==
    {Doc(<<PkgElem(A(NameCore), l, b, <<>>)>>) : l \in RateAttrs, b \in RateAttrs} \cup
    {Doc(<<PkgElem(A(NameCore), R1, R1, <<ClassElem(A(ClassCoreBar), l, b)>>),
           PkgElem(A(NameData), R1, R1, <<>>)>>) :
        l \in RateAttrs, b \in RateAttrs} \cup
    {MalformedDoc,
     Doc(<<PkgElem(NoAttr, R1, R1, <<>>)>>),
     Doc(<<PkgElem(A(NameCore), R1, R1, <<ClassElem(NoAttr, R04, R04)>>)>>)}

RateFamily == {[root |-> TRUE, entries |-> <<Entry("cov", d)>>] : d \in RateDocs}

\* Family 3: documents that report the same packages and classes with
\* different rates, packages that are filtered out, and repeated elements
BarLow == ClassElem(A(ClassCoreBar), R04, R04)

BarMid == ClassElem(A(ClassCoreBar), R06, R06)

BazHigh == ClassElem(A(ClassCoreBaz), R095, R095)

InnerBarHigh == ClassElem(A(ClassInnerBar), R095, R1)

QuxLine == ClassElem(A(ClassPlain), R04, R1)

MergeClassLists == {<<BarLow>>, <<BarMid, BazHigh>>, <<QuxLine, InnerBarHigh>>}

FilteredNames == <<NameCoreTests, NameOther, NameMyWhizbang>>

MergeDocs ==
    {Doc(<<PkgElem(A(NameCore), r[1], r[2], cs)>>) :
        r \in {<<R09, R04>>, <<R04, R09>>}, cs \in MergeClassLists} \cup
    {Doc(<<>>),
     Doc(<<PkgElem(A(NameData), R1, R1, <<BazHigh>>)>>),
     Doc([i \in 1..Len(FilteredNames) |->
            PkgElem(A(FilteredNames[i]), R1, R1, <<BarLow, QuxLine>>)]),
     Doc(<<PkgElem(A(NameOther), R1, R1, <<BarMid>>),
           PkgElem(A(NameCore), R06, R04, <<BarLow>>)>>),
     Doc(<<PkgElem(A(NameCore), R09, R04, <<BarLow>>),
           PkgElem(A(NameCore), R04, R06, <<BarMid, QuxLine>>)>>)}

MergeFamily ==
    {[root |-> TRUE, entries |-> es] :
        es \in SeqsFromTo({Entry("cov", d) : d \in MergeDocs}, 1, MaxProjects)}

\* Family 4: one package with many classes, listed in descending order of
\* name, and documents of three packages for the summary
NumberedClass(i) ==
    NameCore \o <<".", "C", Digits[(i \div 10) + 1], Digits[(i % 10) + 1]>>

\* class i of a listing: below 90 on the line rate, except that class 3 is
\* complete in the "full" flavour and at 90 / 95 in the "high" flavour
ListedClass(i, flavour) ==
    IF i = 3 /\ flavour = "full" THEN ClassElem(A(NumberedClass(i)), R1, R1)
    ELSE IF i = 3 /\ flavour = "high" THEN ClassElem(A(NumberedClass(i)), R09, R095)
    ELSE ClassElem(A(NumberedClass(i)), R04, IF i % 2 = 0 THEN R06 ELSE R1)

ManyClasses(k, flavour) == [j \in 1..k |-> ListedClass(k + 1 - j, flavour)]

ListingDocs ==
    {Doc(<<PkgElem(A(NameCore), R04, R04, ManyClasses(k, fl))>>) :
        k \in (CLASS_CAP - 1)..MaxClasses, fl \in {"low", "full", "high"}}

SummaryDocs ==
    {Doc(<<PkgElem(A(NameCore), a, R1, <<>>),
           PkgElem(A(NameData), b, R1, <<>>),
           PkgElem(A(NameCoreTests), c, R1, <<>>)>>) :
        a \in {R1, R09}, b \in {R1, R09}, c \in {R1, R09}}

ReportFamily ==
    {[root |-> TRUE, entries |-> <<Entry("cov", d)>>] :
        d \in ListingDocs \cup SummaryDocs}

\* The configs on standard input: one topic with every list of
\* subscriptions, and the shapes of the enclosing document
RulesOptions == {RulesMissing, RulesNull, RulesList(<<>>), RulesList(<<CustomRule>>)}

SubOptions == {Subscription(n, r) : n \in BOOLEAN, r \in RulesOptions}

TopicConfigs ==
    {Config(TRUE, TRUE, <<Namespace(TRUE, <<Topic(n, TRUE, ss)>>)>>) :
        n \in BOOLEAN, ss \in SeqsUpTo(SubOptions, MaxSubs)}

NamedSub(r) == Subscription(TRUE, r)

NamespaceShapes ==
    {Namespace(FALSE, <<>>),
     Namespace(TRUE, <<>>),
     Namespace(TRUE, <<Topic(TRUE, FALSE, <<>>)>>),
     Namespace(TRUE, <<Topic(TRUE, TRUE, <<NamedSub(RulesMissing)>>)>>),
     Namespace(TRUE, <<Topic(TRUE, TRUE, <<NamedSub(RulesList(<<CustomRule>>))>>),
                       Topic(FALSE, FALSE, <<>>),
                       Topic(TRUE, TRUE, <<NamedSub(RulesList(<<>>))>>)>>)}

ShapeConfigs ==
    {Config(FALSE, FALSE, <<>>), Config(TRUE, FALSE, <<>>)} \cup
    {Config(TRUE, TRUE, nss) : nss \in SeqsUpTo(NamespaceShapes, MaxNamespaces)}

Stdins ==
    {[valid |-> FALSE, config |-> NoConfig]} \cup
    {[valid |-> TRUE, config |-> c] : c \in TopicConfigs \cup ShapeConfigs}

NoFs == [root |-> FALSE, entries |-> <<>>]

NoStdin == [valid |-> FALSE, config |-> NoConfig]

InitCoverage ==
    /\ script \in {"all", "legacy"}
    /\ fs \in FsFamily \cup RateFamily \cup MergeFamily \cup ReportFamily
    /\ stdin = NoStdin

InitRules ==
    /\ script = "rules"
    /\ fs = NoFs
    /\ stdin \in Stdins

Init ==
    /\ InitCoverage \/ InitRules
    /\ pc = "start"
    /\ coverage_files = <<>>
    /\ parsed = <<>>
    /\ all_packages = EmptyMap
    /\ out = <<>>
    /\ error = ""
    /\ exit_code = -1
    /\ config = NoConfig
    /\ todo = <<>>
    /\ stdout_json = <<>>

(***************************************************************************)
(* The coverage scripts' main                                              *)
(***************************************************************************)
rules_vars == <<stdin, config, todo, stdout_json>>

\* An uncaught exception: the traceback goes to standard error, status 1
Crash(e) ==
    /\ pc' = "crashed"
    /\ error' = e
    /\ exit_code' = 1

\* main returns: status 0
Finish ==
    /\ pc' = "done"
    /\ error' = error
    /\ exit_code' = 0

parse_coverage(s, e) ==
    IF s = "all" THEN parse_coverage_all(e) ELSE parse_coverage_legacy(e)

merge(s, agg, packages) ==
    IF s = "all" THEN merge_all(agg, packages) ELSE merge_legacy(agg, packages)

report(s, agg) == IF s = "all" THEN report_all(agg) ELSE report_legacy(agg)

\* line 66 / line 47: coverage_files = find_..._coverage_files()
Discover ==
    /\ script \in {"all", "legacy"}
    /\ pc = "start"
    /\ IF script = "all" /\ listdir_raises(fs)
       THEN /\ Crash("FileNotFoundError")
            /\ UNCHANGED coverage_files
       ELSE /\ \E order \in Orderings(IF script = "all"
                                      THEN find_latest_coverage_files(fs)
                                      ELSE find_coverage_files(fs)) :
                  coverage_files' = order
            /\ pc' = "discovered"
            /\ UNCHANGED <<error, exit_code>>
    /\ UNCHANGED <<script, fs, parsed, all_packages, out>>
    /\ UNCHANGED rules_vars

\* lines 68-70 / 49-51: nothing was found
MainNoFiles ==
    /\ script \in {"all", "legacy"}
    /\ pc = "discovered"
    /\ no_coverage_files(coverage_files)
    /\ out' = Append(out, NoFilesLine)
    /\ Finish
    /\ UNCHANGED <<script, fs, coverage_files, parsed, all_packages>>
    /\ UNCHANGED rules_vars

\* lines 72-75 / 53: the heading (strict script only) and the empty aggregate
MainStart ==
    /\ script \in {"all", "legacy"}
    /\ pc = "discovered"
    /\ ~no_coverage_files(coverage_files)
    /\ out' = IF script = "all"
              THEN Append(out, Count("analyzing_heading", Len(coverage_files)))
              ELSE out
    /\ all_packages' = EmptyMap
    /\ pc' = "fold"
    /\ UNCHANGED <<script, fs, coverage_files, parsed, error, exit_code>>
    /\ UNCHANGED rules_vars

\* lines 77-83 / 55-58: one turn of the loop over coverage_files
FoldNext ==
    /\ script \in {"all", "legacy"}
    /\ pc = "fold"
    /\ Len(parsed) < Len(coverage_files)
    /\ LET f == coverage_files[Len(parsed) + 1]
           r == parse_coverage(script, fs.entries[f])
       IN  /\ parsed' = Append(parsed, f)
           /\ IF r.err # ""
              THEN /\ Crash(r.err)
                   /\ UNCHANGED all_packages
              ELSE /\ all_packages' = merge(script, all_packages, r.map)
                   /\ UNCHANGED <<pc, error, exit_code>>
    /\ UNCHANGED <<script, fs, coverage_files, out>>
    /\ UNCHANGED rules_vars

\* lines 85-120 / 60-90: the report and the summary
Report ==
    /\ script \in {"all", "legacy"}
    /\ pc = "fold"
    /\ Len(parsed) = Len(coverage_files)
    /\ out' = out \o report(script, all_packages)
    /\ Finish
    /\ UNCHANGED <<script, fs, coverage_files, parsed, all_packages>>
    /\ UNCHANGED rules_vars

(***************************************************************************)
(* add-servicebus-rules.py main                                            *)
(***************************************************************************)
coverage_vars == <<fs, coverage_files, parsed, all_packages, out>>

\* sys.exit(1), from the `if not` on line 53 or from an except clause
Exit1(e) ==
    /\ pc' = "exited"
    /\ error' = e
    /\ exit_code' = 1

\* line 50: config = json.load(sys.stdin)
LoadJson ==
    /\ script = "rules"
    /\ pc = "start"
    /\ IF ~stdin.valid
       THEN /\ Exit1("JSONDecodeError")
            /\ UNCHANGED config
       ELSE /\ config' = stdin.config
            /\ pc' = "loaded"
            /\ UNCHANGED <<error, exit_code>>
    /\ UNCHANGED <<script, stdin, todo, stdout_json>>
    /\ UNCHANGED coverage_vars

\* lines 23-27: the structure check; False makes main exit with status 1
CheckStructure ==
    /\ script = "rules"
    /\ pc = "loaded"
    /\ IF invalid_structure(config)
       THEN /\ Exit1("")
            /\ UNCHANGED todo
       ELSE /\ todo' = subs_of_config(config, Len(config.namespaces))
            /\ pc' = "visiting"
            /\ UNCHANGED <<error, exit_code>>
    /\ UNCHANGED <<script, stdin, config, stdout_json>>
    /\ UNCHANGED coverage_vars

\* lines 36-43: one subscription; a missing Name raises KeyError in the
\* message, after the rule was set, and main's except clause exits
VisitSubscription ==
    /\ script = "rules"
    /\ pc = "visiting"
    /\ todo # <<>>
    /\ config' = visit_subscription(config, Head(todo))
    /\ IF message_raises(config, Head(todo))
       THEN /\ Exit1("KeyError")
            /\ UNCHANGED todo
       ELSE /\ todo' = Tail(todo)
            /\ UNCHANGED <<pc, error, exit_code>>
    /\ UNCHANGED <<script, stdin, stdout_json>>
    /\ UNCHANGED coverage_vars

\* lines 45 and 57: the function returns True and main writes the config
DumpJson ==
    /\ script = "rules"
    /\ pc = "visiting"
    /\ todo = <<>>
    /\ stdout_json' = Append(stdout_json, config)
    /\ Finish
    /\ UNCHANGED <<script, stdin, config, todo>>
    /\ UNCHANGED coverage_vars

Next ==
    \/ Discover
    \/ MainNoFiles
    \/ MainStart
    \/ FoldNext
    \/ Report
    \/ LoadJson
    \/ CheckStructure
    \/ VisitSubscription
    \/ DumpJson

Spec == Init /\ [][Next]_vars


(***************************************************************************)
(* Properties                                                              *)
(***************************************************************************)
Coverage == script \in {"all", "legacy"}

\* main has folded every discovered document (and there was at least one)
Folded ==
    /\ Coverage
    /\ pc \in {"fold", "done"}
    /\ coverage_files # <<>>
    /\ Len(parsed) = Len(coverage_files)

Files == {coverage_files[i] : i \in 1..Len(coverage_files)}

SetMax(S) == CHOOSE x \in S : \A y \in S : y <= x

\* the package elements named n in the document of project f
ElementsNamed(f, n) ==
    LET ps == fs.entries[f].doc.packages
    IN  {ps[i] : i \in {j \in 1..Len(ps) : ps[j].name.present /\ ps[j].name.text = n}}

ReportedLine(n) == {RateOf(pe.line) : pe \in UNION {ElementsNamed(f, n) : f \in Files}}

ReportedBranch(n) == {RateOf(pe.branch) : pe \in UNION {ElementsNamed(f, n) : f \in Files}}

\* what parse_coverage returns for the document of project f
Extracted(f) == parse_coverage(script, fs.entries[f]).map

\* what parse_coverage returns for each discovered document
Extractions == [f \in Files |-> Extracted(f)]

\* the aggregate after folding the first n of the extractions ex in an order
RECURSIVE FoldFiles(_, _, _)
FoldFiles(ex, order, n) ==
    IF n = 0 THEN EmptyMap
    ELSE merge(script, FoldFiles(ex, order, n - 1), ex[order[n]])

\* the position in coverage_files of the last document whose extraction (in
\* ex) holds class c under package n; 0 when there is none
LastReporting(ex, n, c) ==
    LET hits == {i \in 1..Len(coverage_files) :
                    /\ n \in DOMAIN ex[coverage_files[i]]
                    /\ c \in DOMAIN ex[coverage_files[i]][n].classes}
    IN  IF hits = {} THEN 0 ELSE SetMax(hits)

\* C1: in analyze_all_coverage.py, once every document is folded, each
\* package of the aggregate carries the highest line rate and the highest
\* branch rate that any package element of that name reported, in any
\* document; the right-hand sides do not depend on the order of folding.
C1_AggregateIsMaximum ==
    (Folded /\ script = "all") =>
        \A n \in DOMAIN all_packages :
            /\ ReportedLine(n) # {}
            /\ all_packages[n].line = SetMax(ReportedLine(n))
            /\ all_packages[n].branch = SetMax(ReportedBranch(n))

\* C1 witness: two documents report one package, the line maximum comes
\* from one of them and the branch maximum from the other.
C1_Witness ==
    /\ Folded
    /\ script = "all"
    /\ \E n \in DOMAIN all_packages : \E f, g \in Files :
          /\ f # g
          /\ n \in DOMAIN Extracted(f)
          /\ n \in DOMAIN Extracted(g)
          /\ Extracted(f)[n].line = all_packages[n].line
          /\ Extracted(f)[n].branch < all_packages[n].branch
          /\ Extracted(g)[n].branch = all_packages[n].branch
          /\ Extracted(g)[n].line < all_packages[n].line

\* C2 as stated: the aggregate of analyze_all_coverage.py, class maps and
\* class rates included, is the same for every order of folding the
\* discovered documents.
C2_OrderIndependent ==
    (Folded /\ script = "all") =>
        LET ex == Extractions
        IN  \A order \in Orderings(Files) :
                FoldFiles(ex, order, Len(order)) = all_packages

\* C2 as amended: for every order of folding, the packages, the package
\* rates and the class short names of each package are the same; the rates
\* of a class are those of the last-folded document whose extraction holds
\* the class for that package.
C2_OrderIndependentRates ==
    (Folded /\ script = "all") =>
        LET ex == Extractions
        IN  /\ \A order \in Orderings(Files) :
                  LET alt == FoldFiles(ex, order, Len(order))
                  IN  /\ DOMAIN alt = DOMAIN all_packages
                      /\ \A n \in DOMAIN alt :
                            /\ alt[n].line = all_packages[n].line
                            /\ alt[n].branch = all_packages[n].branch
                            /\ DOMAIN alt[n].classes = DOMAIN all_packages[n].classes
            /\ \A n \in DOMAIN all_packages : \A c \in DOMAIN all_packages[n].classes :
                  /\ LastReporting(ex, n, c) # 0
                  /\ all_packages[n].classes[c] =
                        ex[coverage_files[LastReporting(ex, n, c)]][n].classes[c]

\* C2 witness: two documents hold the same class of the same package with
\* different rates, and the aggregate holds the later one's.
C2_Witness ==
    /\ Folded
    /\ script = "all"
    /\ \E i, j \in 1..Len(coverage_files) :
          /\ i < j
          /\ \E n \in DOMAIN all_packages :
                /\ n \in DOMAIN Extracted(coverage_files[i])
                /\ n \in DOMAIN Extracted(coverage_files[j])
                /\ \E c \in DOMAIN Extracted(coverage_files[j])[n].classes :
                      /\ c \in DOMAIN Extracted(coverage_files[i])[n].classes
                      /\ Extracted(coverage_files[i])[n].classes[c] #
                            Extracted(coverage_files[j])[n].classes[c]
                      /\ all_packages[n].classes[c] =
                            Extracted(coverage_files[j])[n].classes[c]

\* C3 as stated: in analyze_coverage.py, once every document is folded,
\* each package of the aggregate carries the highest line rate and the
\* highest branch rate among the records the documents' extractions hold
\* for it.
C3_LegacyMergeIsMaximum ==
    (Folded /\ script = "legacy") =>
        \A n \in DOMAIN all_packages :
            LET recs == {Extracted(f)[n] : f \in {g \in Files : n \in DOMAIN Extracted(g)}}
            IN  /\ all_packages[n].line = SetMax({r.line : r \in recs})
                /\ all_packages[n].branch = SetMax({r.branch : r \in recs})

\* C4 as stated: in analyze_coverage.py, once every document is folded,
\* the class map of each package is the union of the class maps the
\* documents' extractions hold for it, a class reported more than once
\* carrying the rates of the last-folded document that holds it.
C4_LegacyClassesAreUnion ==
    (Folded /\ script = "legacy") =>
        LET ex == Extractions
        IN  \A n \in DOMAIN all_packages :
                /\ DOMAIN all_packages[n].classes =
                      UNION {DOMAIN ex[f][n].classes :
                                f \in {g \in Files : n \in DOMAIN ex[g]}}
                /\ \A c \in DOMAIN all_packages[n].classes :
                      /\ LastReporting(ex, n, c) # 0
                      /\ all_packages[n].classes[c] =
                            ex[coverage_files[LastReporting(ex, n, c)]][n].classes[c]


\* C5 as stated: reading a rate attribute never ends the run, whether the
\* attribute is absent or holds text that is no decimal.
C5_RateReadNeverAborts == Coverage => error # "ValueError"

\* the coverage paths on disk that the script's discovery looks for
Candidates ==
    {i \in 1..Len(fs.entries) :
        IF script = "all" THEN fs.entries[i].kind = "cov"
        ELSE fs.entries[i].kind \in {"cov", "deep"}}

\* C6 as stated: discovery returns for every state of the file system, the
\* missing root included, and returns exactly the coverage paths on disk.
C6_DiscoveryNeverFails ==
    (Coverage /\ pc # "start") =>
        /\ error # "FileNotFoundError"
        /\ Files = Candidates

\* C7: when discovery returns no document, main prints the one diagnostic
\* line and nothing else, hands no file to parse_coverage and ends with
\* status 0.
C7_NoFilesDiagnostic ==
    (Coverage /\ pc # "start" /\ error # "FileNotFoundError" /\ coverage_files = <<>>) =>
        /\ parsed = <<>>
        /\ error = ""
        /\ \/ pc = "discovered" /\ out = <<>> /\ exit_code = -1
           \/ pc = "done" /\ out = <<NoFilesLine>> /\ exit_code = 0

\* C7 witness: a run over project directories none of which holds a
\* coverage file has ended with the diagnostic.
C7_Witness ==
    /\ Coverage
    /\ pc = "done"
    /\ fs.root
    /\ fs.entries # <<>>
    /\ coverage_files = <<>>
    /\ out = <<NoFilesLine>>
    /\ exit_code = 0

PackageLines == {i \in 1..Len(out) : out[i].kind = "package"}

\* C8: every package of the aggregate gets one line with one status:
\* complete iff both rates are 100, else near-complete iff both are at least
\* the script's threshold (95 strict, 90 legacy), else needs work.
C8_StatusClassification ==
    Coverage =>
        /\ \A i \in PackageLines :
              LET l    == out[i].line
                  b    == out[i].branch
                  near == IF script = "all" THEN 95 ELSE 90
                  low  == IF script = "all" THEN "Needs Work" ELSE "Low"
              IN  /\ out[i].status \in {"100%", "Near", low}
                  /\ out[i].status = "100%" <=> (l = 100 /\ b = 100)
                  /\ out[i].status = "Near" <=>
                        (~(l = 100 /\ b = 100) /\ l >= near /\ b >= near)
                  /\ out[i].name \in DOMAIN all_packages
                  /\ l = all_packages[out[i].name].line
                  /\ b = all_packages[out[i].name].branch
        /\ (pc = "done" /\ coverage_files # <<>>) =>
              \A n \in DOMAIN all_packages :
                  Cardinality({i \in PackageLines : out[i].name = n}) = 1

\* C8 witness: the report holds a package with line rate 60 and branch
\* rate 40 marked as needing work.
C8_Witness ==
    /\ Coverage
    /\ pc = "done"
    /\ \E i \in PackageLines :
          /\ out[i].line = 60
          /\ out[i].branch = 40
          /\ out[i].status \in {"Needs Work", "Low"}

\* the names the claim keeps: the prefix, and no test marker in the strict
\* script
KeptName(n) ==
    /\ StartsWith(n, PREFIX)
    /\ script = "all" => ~Contains(n, TEST_MARKER)

KeptElement(pe) == pe.name.present /\ KeptName(pe.name.text)

\* the entry without the package elements the claim discards
Stripped(e) == [e EXCEPT !.doc.packages = SelectSeq(@, KeptElement)]

RECURSIVE FoldStripped(_, _)
FoldStripped(order, n) ==
    IF n = 0 THEN EmptyMap
    ELSE merge(script, FoldStripped(order, n - 1),
               parse_coverage(script, Stripped(fs.entries[order[n]])).map)

\* C9: every package of the aggregate and every package line printed has a
\* name that starts with 'Whizbang' and, in the strict script, holds no
\* '.Tests'; the aggregate is the one the same documents give with their
\* discarded package elements removed.
C9_OnlyProjectPackages ==
    Coverage =>
        /\ \A n \in DOMAIN all_packages : KeptName(n)
        /\ \A i \in PackageLines : KeptName(out[i].name)
        /\ (error = "" /\ pc \in {"fold", "done"}) =>
              all_packages = FoldStripped(coverage_files, Len(parsed))

\* C9 witness: a folded document holds a discarded package with rates of
\* 100 and classes of its own, and the aggregate holds a package below 100.
C9_Witness ==
    /\ Folded
    /\ \E f \in Files : \E i \in 1..Len(fs.entries[f].doc.packages) :
          LET pe == fs.entries[f].doc.packages[i]
          IN  /\ ~KeptElement(pe)
              /\ RateOf(pe.line) = 100
              /\ pe.classes # <<>>
    /\ \E n \in DOMAIN all_packages :
          /\ all_packages[n].line < 100
          /\ all_packages[n].classes # <<>>

RulesRun == script = "rules" /\ stdin.valid /\ pc \in {"done", "exited"}

HasNamespaces(c) == c.hasUserConfig /\ c.hasNamespaces

\* the subscription as the claim leaves it
ExpectedSub(sub) ==
    IF sub.rules.kind # "list" \/ sub.rules.list = <<>>
    THEN [sub EXCEPT !.rules =
            [kind |-> "list",
             list |-> <<[Name |-> "$Default", FilterType |-> 0,
                         SqlExpression |-> "1=1"]>>]]
    ELSE sub

\* the config as the claim leaves it: nothing but the rules of the
\* subscriptions that had none is changed
ExpectedConfig(c) ==
    [c EXCEPT !.namespaces =
        [i \in DOMAIN c.namespaces |->
            [c.namespaces[i] EXCEPT !.topics =
                [j \in DOMAIN c.namespaces[i].topics |->
                    [c.namespaces[i].topics[j] EXCEPT !.subscriptions =
                        [k \in DOMAIN c.namespaces[i].topics[j].subscriptions |->
                            ExpectedSub(c.namespaces[i].topics[j].subscriptions[k])]]]]]]

\* every topic that holds a subscription, and every subscription, has a Name
AllNamed(c) ==
    \A i \in DOMAIN c.namespaces : \A j \in DOMAIN c.namespaces[i].topics :
        LET t == c.namespaces[i].topics[j]
        IN  (c.namespaces[i].hasTopics /\ t.hasSubscriptions) =>
                \A k \in DOMAIN t.subscriptions :
                    t.hasName /\ t.subscriptions[k].hasName

EveryVisitedSubHasRules(c) ==
    \A i \in DOMAIN c.namespaces : \A j \in DOMAIN c.namespaces[i].topics :
        LET t == c.namespaces[i].topics[j]
        IN  (c.namespaces[i].hasTopics /\ t.hasSubscriptions) =>
                \A k \in DOMAIN t.subscriptions :
                    /\ t.subscriptions[k].rules.kind = "list"
                    /\ t.subscriptions[k].rules.list # <<>>

Patched ==
    /\ pc = "done"
    /\ exit_code = 0
    /\ config = ExpectedConfig(stdin.config)
    /\ EveryVisitedSubHasRules(config)
    /\ stdout_json = <<config>>

Rejected ==
    /\ pc = "exited"
    /\ exit_code = 1
    /\ config = stdin.config
    /\ stdout_json = <<>>

ClassMapOf(pe) ==
    IF script = "all" THEN classes_all(pe.classes, Len(pe.classes)).map
    ELSE classes_legacy(pe.classes, Len(pe.classes)).map

\* the aggregate after folding, as documents of their own, the first n
\* package elements of a list
RECURSIVE FoldElements(_, _)
FoldElements(elems, n) ==
    IF n = 0 THEN EmptyMap
    ELSE merge(script, FoldElements(elems, n - 1),
               parse_coverage(script, Entry("cov", Doc(<<elems[n]>>))).map)

\* C11 as stated: in both scripts, what parse_coverage returns for a package
\* name holds the highest line rate and the highest branch rate among the
\* document's package elements of that name and the union of their class
\* maps, and the whole mapping is what folding the elements as separate
\* documents gives.
C11_RepeatedElementsMerged ==
    (Coverage /\ pc \in {"fold", "done"}) =>
        \A i \in 1..Len(parsed) :
            LET f == parsed[i]
                r == parse_coverage(script, fs.entries[f])
                ps == fs.entries[f].doc.packages
            IN  r.err = "" =>
                    /\ \A n \in DOMAIN r.map :
                          /\ r.map[n].line =
                                SetMax({RateOf(pe.line) : pe \in ElementsNamed(f, n)})
                          /\ r.map[n].branch =
                                SetMax({RateOf(pe.branch) : pe \in ElementsNamed(f, n)})
                          /\ DOMAIN r.map[n].classes =
                                UNION {DOMAIN ClassMapOf(pe) : pe \in ElementsNamed(f, n)}
                    /\ r.map = FoldElements(ps, Len(ps))


IsClassLine(l) == l.kind = "class"

IsMoreLine(l) == l.kind = "more_classes"

\* the lines printed under the package line at position i of the output: up
\* to the next package line or the summary
LinesUnder(i) ==
    LET stops == {j \in (i + 1)..Len(out) : out[j].kind \in {"package", "summary_heading"}}
        stop  == IF stops = {} THEN Len(out) + 1
                 ELSE CHOOSE j \in stops : \A k \in stops : j <= k
    IN  SubSeq(out, i + 1, stop - 1)

\* the classes of a class map with a rate below 100
BelowFull(classes) ==
    {c \in DOMAIN classes : classes[c][1] < 100 \/ classes[c][2] < 100}

\* C12: in analyze_all_coverage.py, under every package line the listed
\* classes are classes of the package's class map with a rate below 100,
\* printed with their rates in ascending order of short name, at most 10 of
\* them; a '... and N more classes' line carries the number of classes with
\* a rate below 100 that are not listed; when at most 10 such classes exist
\* all of them are listed and no such line is printed.
C12_ClassListing ==
    (script = "all" /\ pc = "done") =>
        \A i \in PackageLines :
            LET classes == all_packages[out[i].name].classes
                below   == BelowFull(classes)
                listed  == SelectSeq(LinesUnder(i), IsClassLine)
                names   == {listed[j].name : j \in 1..Len(listed)}
                more    == SelectSeq(LinesUnder(i), IsMoreLine)
            IN  /\ \A j \in 1..Len(listed) :
                      /\ listed[j].name \in below
                      /\ listed[j].line = classes[listed[j].name][1]
                      /\ listed[j].branch = classes[listed[j].name][2]
                      /\ ~(listed[j].line = 100 /\ listed[j].branch = 100)
                /\ \A j, k \in 1..Len(listed) :
                      j < k => StrLess(listed[j].name, listed[k].name)
                /\ Len(listed) <= 10
                /\ Len(more) <= 1
                /\ \A j \in 1..Len(more) : more[j].n = Cardinality(below \ names)
                /\ Cardinality(below) <= 10 => (names = below /\ more = <<>>)

\* C12 witness: a document of twelve classes, one of them at 90 or above on
\* both rates, was reported with ten classes listed and one more counted.
C12_Witness ==
    /\ script = "all"
    /\ pc = "done"
    /\ \E f \in Files : \E p \in 1..Len(fs.entries[f].doc.packages) :
          LET cs == fs.entries[f].doc.packages[p].classes
          IN  /\ Len(cs) = 12
              /\ \E j \in 1..Len(cs) :
                    RateOf(cs[j].line) >= 90 /\ RateOf(cs[j].branch) >= 90
    /\ \E i \in PackageLines :
          /\ Len(SelectSeq(LinesUnder(i), IsClassLine)) = 10
          /\ SelectSeq(LinesUnder(i), IsMoreLine) = <<Count("more_classes", 1)>>


\* the numbers printed on the summary lines of a kind
Printed(kind) == {out[i].n : i \in {j \in 1..Len(out) : out[j].kind = kind}}

SummaryPrinted == \E i \in 1..Len(out) : out[i].kind = "summary_heading"

\* floor(100 * c / t) for t > 0
FloorPercent(c, t) ==
    CHOOSE q \in 0..100 : q * t <= 100 * c /\ 100 * c < (q + 1) * t

\* C13: whenever the summary is printed, 'Total Packages' is the number of
\* package names of the aggregate and '100% Coverage' the number of packages
\* printed with the complete status; the strict script prints total minus
\* complete, which is the number of packages printed with another status, as
\* 'Packages Needing Work'; the legacy script prints floor(100 * complete /
\* total) as the percentage, 0 when total is 0, and no exception ends the run.
C13_SummaryCounts ==
    (Coverage /\ SummaryPrinted) =>
        LET total    == Cardinality(DOMAIN all_packages)
            complete == Cardinality({i \in PackageLines : out[i].status = "100%"})
            others   == Cardinality({i \in PackageLines : out[i].status # "100%"})
        IN  /\ pc = "done"
            /\ error = ""
            /\ exit_code = 0
            /\ Printed("total_packages") = {total}
            /\ Printed("full_coverage") = {complete}
            /\ complete <= total
            /\ script = "all" =>
                  /\ Printed("needing_work") = {total - complete}
                  /\ others = total - complete
                  /\ Printed("coverage_rate") = {}
            /\ script = "legacy" =>
                  /\ Printed("needing_work") = {}
                  /\ Printed("coverage_rate") =
                        {IF total > 0 THEN FloorPercent(complete, total) ELSE 0}

\* C13 witness: the legacy script reported three packages, one of them
\* complete, and printed 33 as the percentage.
C13_Witness ==
    /\ script = "legacy"
    /\ pc = "done"
    /\ Printed("total_packages") = {3}
    /\ Printed("full_coverage") = {1}
    /\ Printed("coverage_rate") = {33}

=============================================================================
